---- MODULE Spec2Model ----
(***************************************************************************)
(* Model of the eSIM diagnosis service: the rule engine                    *)
(* (src/rules/ruleEngine.js), the fallback reasoner (src/llm/llmHandler.js)*)
(* the provider client and the POST /diagnose handler (src/unnamed/        *)
(* part_000).  One request is followed from its arrival to its response.   *)
(***************************************************************************)
EXTENDS Integers, Sequences, FiniteSets, TLC

(***************************************************************************)
(* JavaScript values.  An object is a function from field names to values; *)
(* a field that is undefined is absent from the domain.  null is its own   *)
(* object.  A string that is searched is a sequence of characters.         *)
(***************************************************************************)
null == [isNull |-> TRUE]

EmptyObject == [f \in {} |-> f]

Has(o, f) == f \in DOMAIN o

\* o.f === v
StrictEq(o, f, v) == Has(o, f) /\ o[f] = v

\* the sets {}, {f: v} for v in V
OptField(f, V) == {EmptyObject} \cup {f :> v : v \in V}

UpperCase == <<"A", "B", "C", "D", "E", "F", "G", "H", "I", "J", "K", "L", "M", "N", "O", "P", "Q", "R", "S", "T", "U", "V", "W", "X", "Y", "Z">>

LowerCase == <<"a", "b", "c", "d", "e", "f", "g", "h", "i", "j", "k", "l", "m", "n", "o", "p", "q", "r", "s", "t", "u", "v", "w", "x", "y", "z">>

toLowerCase(s) ==
  [i \in 1..Len(s) |->
     IF \E k \in 1..Len(UpperCase) : UpperCase[k] = s[i]
     THEN LowerCase[CHOOSE k \in 1..Len(UpperCase) : UpperCase[k] = s[i]]
     ELSE s[i]]

includes(s, kw) ==
  \E i \in 0..(Len(s) - Len(kw)) : SubSeq(s, i + 1, i + Len(kw)) = kw

(***************************************************************************)
(* Bounds and program constants.                                           *)
(***************************************************************************)
\* minutes sampled on each side of the 15 minute threshold
Window == 1

\* the most milliseconds the clock advances between two readings of one
\* evaluation
MaxDrift == 1

MsPerMinute == 1000 * 60

ProvisioningThreshold == 15

ConfidenceGate == 80

\* the clock when the rules run
Now0 == 100 * MsPerMinute

(***************************************************************************)
(* Inputs: user texts, subscription records, request bodies.               *)
(***************************************************************************)
NoServiceText == <<"N", "O", " ", "S", "E", "R", "V", "I", "C", "E">>

ActivationFailedText == <<"A", "c", "t", "i", "v", "a", "t", "i", "o", "n", " ", "F", "a", "i", "l", "e", "d">>

BothText == <<"n", "o", " ", "s", "i", "g", "n", "a", "l", ",", " ", "A", "C", "T", "I", "V", "A", "T", "I", "O", "N", " ", "F", "A", "I", "L", "E", "D">>

StuckText == <<"s", "t", "u", "c", "k">>

Texts == {NoServiceText, ActivationFailedText, BothText, StuckText}

String(chars) == [type |-> "string", chars |-> chars]

\* values a request may carry as userIssue: strings (the empty one too) and
\* a number
UserIssues == {String(t) : t \in Texts \cup {<<>>}} \cup {[type |-> "number"]}

SubscriptionIds == {"", "sub_1"}

\* a check for undefined only
MissingId_undefinedOnly(b) == ~Has(b, "subscriptionId")

\* !subscriptionId
MissingId(b) == ~Has(b, "subscriptionId") \/ b.subscriptionId = ""

\* !userIssue
MissingIssue(b) ==
  ~Has(b, "userIssue") \/ (b.userIssue.type = "string" /\ b.userIssue.chars = <<>>)

\* req.body
Bodies ==
  {i @@ u : i \in OptField("subscriptionId", SubscriptionIds),
            u \in OptField("userIssue", UserIssues)}

ElapsedSamples ==
  {m * MsPerMinute + o :
     m \in (ProvisioningThreshold - Window)..(ProvisioningThreshold + Window),
     o \in {0, MsPerMinute - 1}}
  \cup {0, 0 - MsPerMinute}

CreatedAts == {Now0 - e : e \in ElapsedSamples}

SimCreatedAts == {Now0 - (ProvisioningThreshold + Window) * MsPerMinute}

SubscriptionStatuses == {"pending", "initiated", "active", "restricted", "ended", "unrecognized"}

SimStatuses == {"active", "inactive"}

SimIds == {"sim_1"}

Sims ==
  {("status" :> s) @@ i @@ c :
     s \in SimStatuses, i \in OptField("id", SimIds),
     c \in OptField("createdAt", SimCreatedAts)}

SubscriptionRecords ==
  {("status" :> s) @@ c @@ m :
     s \in SubscriptionStatuses, c \in OptField("createdAt", CreatedAts),
     m \in OptField("sim", Sims)}

\* the two clock readings one evaluation can take, in order
Clocks == {<<Now0, Now0 + d>> : d \in {0, MaxDrift}}

(***************************************************************************)
(* Rule engine.                                                            *)
(***************************************************************************)
simOf(data) == IF Has(data, "sim") THEN data.sim ELSE EmptyObject

\* data.createdAt || data.sim?.createdAt, then Math.floor(diffMs / 60000)
_minutesSinceActivation(data, now) ==
  IF Has(data, "createdAt")
  THEN (now - data.createdAt) \div MsPerMinute
  ELSE IF Has(simOf(data), "createdAt")
       THEN (now - simOf(data).createdAt) \div MsPerMinute
       ELSE 0

\* rule 1; clock[1] is read by the condition, clock[2] by the reasoning text
ruleProvisioningStuck(data, userIssue, clock) ==
  IF /\ StrictEq(simOf(data), "status", "inactive")
     /\ StrictEq(data, "status", "pending")
     /\ _minutesSinceActivation(data, clock[1]) > ProvisioningThreshold
  THEN [ruleName |-> "provisioning_stuck", confidence |-> 95,
        action |-> "reprovision", message |-> "reset_done_restart_phone",
        reasoningMinutes |-> _minutesSinceActivation(data, clock[2])]
       @@ (IF Has(simOf(data), "id") THEN "simId" :> simOf(data).id ELSE EmptyObject)
  ELSE null

\* rule 2
ruleBillingHold(data, userIssue, clock) ==
  IF /\ StrictEq(simOf(data), "status", "inactive")
     /\ StrictEq(data, "status", "initiated")
  THEN [ruleName |-> "billing_hold", confidence |-> 98,
        action |-> "route_to_payment", message |-> "payment_hold"]
  ELSE null

\* rule 3; reached only after rule 1 returned null, so it takes the second
\* clock reading
ruleNormalDelay(data, userIssue, clock) ==
  LET minutesElapsed == _minutesSinceActivation(data, clock[2])
  IN  IF /\ StrictEq(simOf(data), "status", "inactive")
         /\ StrictEq(data, "status", "pending")
         /\ minutesElapsed < ProvisioningThreshold
      THEN [ruleName |-> "normal_delay", confidence |-> 90,
            action |-> "wait", message |-> "in_progress_wait",
            minutesRemaining |-> ProvisioningThreshold - minutesElapsed,
            reasoningMinutes |-> minutesElapsed]
      ELSE null

TypeError == [thrown |-> "TypeError"]

IsThrown(r) == Has(r, "thrown")

noServiceKeywords ==
  {<<"n", "o", " ", "s", "e", "r", "v", "i", "c", "e">>,
   <<"n", "o", " ", "d", "a", "t", "a">>,
   <<"n", "o", "t", " ", "w", "o", "r", "k", "i", "n", "g">>,
   <<"n", "o", " ", "s", "i", "g", "n", "a", "l">>}

activationFailedKeyword ==
  {<<"a", "c", "t", "i", "v", "a", "t", "i", "o", "n", " ", "f", "a", "i", "l", "e", "d">>}

\* keywords.some(kw => userIssue.toLowerCase().includes(kw))
mentions(userIssue, keywords) ==
  \E kw \in keywords : includes(toLowerCase(userIssue.chars), kw)

\* rule 4 triggered by the wording alone, as rule 7 is
ruleDeviceConfig_keywordOnly(data, userIssue, clock) ==
  IF userIssue.type # "string" THEN TypeError
  ELSE IF mentions(userIssue, noServiceKeywords)
       THEN [ruleName |-> "device_config", confidence |-> 85,
             action |-> "route_to_settings_guide", message |-> "check_device_settings"]
       ELSE null

\* rule 4; the keyword search runs before the statuses are looked at
ruleDeviceConfig(data, userIssue, clock) ==
  IF userIssue.type # "string" THEN TypeError
  ELSE IF /\ StrictEq(simOf(data), "status", "active")
          /\ StrictEq(data, "status", "active")
          /\ mentions(userIssue, noServiceKeywords)
       THEN [ruleName |-> "device_config", confidence |-> 85,
             action |-> "route_to_settings_guide", message |-> "check_device_settings"]
       ELSE null

\* rule 5 with the SIM condition its header comment names
rulePaymentOverdue_simActive(data, userIssue, clock) ==
  IF StrictEq(simOf(data), "status", "active") /\ StrictEq(data, "status", "restricted")
  THEN [ruleName |-> "payment_overdue", confidence |-> 98,
        action |-> "route_to_payment_restoration", message |-> "payment_overdue"]
  ELSE null

\* rule 5
rulePaymentOverdue(data, userIssue, clock) ==
  IF StrictEq(data, "status", "restricted")
  THEN [ruleName |-> "payment_overdue", confidence |-> 98,
        action |-> "route_to_payment_restoration", message |-> "payment_overdue"]
  ELSE null

\* rule 6
ruleSubscriptionEnded(data, userIssue, clock) ==
  IF StrictEq(data, "status", "ended")
  THEN [ruleName |-> "subscription_ended", confidence |-> 100,
        action |-> "inform_only", message |-> "subscription_canceled"]
  ELSE null

\* rule 7
ruleActivationFailed(data, userIssue, clock) ==
  IF userIssue.type # "string" THEN TypeError
  ELSE IF mentions(userIssue, activationFailedKeyword)
       THEN [ruleName |-> "activation_failed", confidence |-> 85,
             action |-> "reprovision", message |-> "reset_done_restart_phone"]
       ELSE null

\* the array with the keyword rule moved to the front
rules_keywordFirst ==
  <<"ruleActivationFailed", "ruleProvisioningStuck", "ruleBillingHold",
    "ruleNormalDelay", "ruleDeviceConfig", "rulePaymentOverdue",
    "ruleSubscriptionEnded">>

\* the rules array of evaluate
rules ==
  <<"ruleProvisioningStuck", "ruleBillingHold", "ruleNormalDelay",
    "ruleDeviceConfig", "rulePaymentOverdue", "ruleSubscriptionEnded",
    "ruleActivationFailed">>

\* rule.call(this, subscriptionData, userIssue)
call(rule, data, userIssue, clock) ==
  CASE rule = "ruleProvisioningStuck" -> ruleProvisioningStuck(data, userIssue, clock)
    [] rule = "ruleBillingHold" -> ruleBillingHold(data, userIssue, clock)
    [] rule = "ruleNormalDelay" -> ruleNormalDelay(data, userIssue, clock)
    [] rule = "ruleDeviceConfig" -> ruleDeviceConfig(data, userIssue, clock)
    [] rule = "rulePaymentOverdue" -> rulePaymentOverdue(data, userIssue, clock)
    [] rule = "ruleSubscriptionEnded" -> ruleSubscriptionEnded(data, userIssue, clock)
    [] rule = "ruleActivationFailed" -> ruleActivationFailed(data, userIssue, clock)

\* the for loop of evaluate, from position i of the list rs
RECURSIVE evaluateFrom(_, _, _, _, _)
evaluateFrom(rs, i, data, userIssue, clock) ==
  IF i > Len(rs) THEN null
  ELSE LET result == call(rs[i], data, userIssue, clock)
       IN  IF result # null THEN result
           ELSE evaluateFrom(rs, i + 1, data, userIssue, clock)

evaluate(data, userIssue, clock) == evaluateFrom(rules, 1, data, userIssue, clock)

(***************************************************************************)
(* Fallback reasoner.  The reply of the generative model is a sequence of  *)
(* tokens: prose, an opening brace, a closing brace, and the member list   *)
(* of a JSON object.                                                       *)
(***************************************************************************)
Prose == [t |-> "prose"]

Open == [t |-> "{"]

Close == [t |-> "}"]

Members(d) == [t |-> "members", value |-> d]

LLMConfidences == {ConfidenceGate - 1, ConfidenceGate}

LLMActions == {"reprovision", "wait", "restart_device"}

\* the objects the model may send
Diagnoses ==
  {("reasoning" :> "model_reasoning") @@ a @@ c @@ m :
     a \in OptField("recommendedAction", LLMActions),
     c \in OptField("confidence", LLMConfidences),
     m \in {EmptyObject, [diagnosis |-> "model_diagnosis"],
            [diagnosis |-> "model_diagnosis", userMessage |-> "model_message"]}}

SomeDiagnosis ==
  [diagnosis |-> "model_diagnosis", recommendedAction |-> "reprovision",
   confidence |-> ConfidenceGate, reasoning |-> "model_reasoning"]

ResponseTexts ==
  {<<Open, Members(d), Close>> : d \in Diagnoses}
  \cup {<<Prose, Open, Members(SomeDiagnosis), Close, Prose>>,
        <<Open, Close>>,
        <<Prose>>,
        <<Close, Prose, Open>>,
        <<Open, Members(SomeDiagnosis)>>,
        <<Open, Prose, Close>>,
        <<Open, Members(SomeDiagnosis), Close, Prose, Close>>}

\* responseText.match(/\{[\s\S]*\}/): from the first opening brace to the
\* last closing brace after it
match(text) ==
  LET opens == {i \in 1..Len(text) : text[i].t = "{"}
      closes == {i \in 1..Len(text) : text[i].t = "}"}
  IN  IF opens = {} THEN null
      ELSE LET first == CHOOSE i \in opens : \A j \in opens : i <= j
               after == {i \in closes : i > first}
           IN  IF after = {} THEN null
               ELSE LET last == CHOOSE i \in after : \A j \in after : j <= i
                    IN  [found |-> SubSeq(text, first, last)]

SyntaxError == [thrown |-> "SyntaxError"]

\* JSON.parse of a matched text
JSONparse(m) ==
  IF Len(m) = 2 THEN EmptyObject
  ELSE IF Len(m) = 3 /\ m[2].t = "members" THEN m[2].value
       ELSE SyntaxError

\* a catch block that keeps a confident reprovision diagnosis
llmFallback_confident(message) ==
  [success |-> FALSE, error |-> message,
   diagnosis |-> [diagnosis |-> "Unable to diagnose automatically",
                  recommendedAction |-> "reprovision", confidence |-> 100,
                  reasoning |-> <<"LLM error: ", message>>]]

\* the catch block of diagnose
llmFallback(message) ==
  [success |-> FALSE, error |-> message,
   diagnosis |-> [diagnosis |-> "Unable to diagnose automatically",
                  recommendedAction |-> "escalate", confidence |-> 0,
                  reasoning |-> <<"LLM error: ", message>>]]

\* diagnose, given what generateContent did: reply.ok with reply.text, or a
\* rejection with reply.message
llmDiagnose(reply) ==
  IF ~reply.ok THEN llmFallback(reply.message)
  ELSE LET jsonMatch == match(reply.text)
       IN  IF jsonMatch = null THEN llmFallback("LLM did not return valid JSON")
           ELSE LET parsed == JSONparse(jsonMatch.found)
                IN  IF IsThrown(parsed) THEN llmFallback("Unexpected token in JSON")
                    ELSE [success |-> TRUE, diagnosis |-> parsed, rawResponse |-> reply.text]

ModelReplies ==
  {[ok |-> TRUE, text |-> t] : t \in ResponseTexts}
  \cup {[ok |-> FALSE, message |-> "fetch failed"]}

(***************************************************************************)
(* Provider client.                                                        *)
(***************************************************************************)
\* what the provider does with GET /subscriptions/:id
FetchOutcomes ==
  {[ok |-> TRUE, data |-> d] : d \in SubscriptionRecords}
  \cup {[ok |-> FALSE, error |-> [message |-> e]] : e \in {"not_found", "ECONNREFUSED"}}

getSubscriptionResult(outcome) ==
  IF outcome.ok THEN [success |-> TRUE, data |-> outcome.data]
  ELSE [success |-> FALSE, error |-> outcome.error]

\* what the provider does with POST /v1/sims/:id/reprovision
ReprovisionOutcomes == {[ok |-> TRUE, data |-> "provider_data"], [ok |-> FALSE]}

\* a catch block that reports the failure, as getSubscription's does
reprovisionSIMResult_propagate(simId, outcome) ==
  IF outcome.ok THEN [success |-> TRUE, data |-> outcome.data]
  ELSE [success |-> FALSE, error |-> [message |-> "reprovision_failed"]]

reprovisionSIMResult(simId, outcome) ==
  IF outcome.ok THEN [success |-> TRUE, data |-> outcome.data]
  ELSE [success |-> TRUE,
        data |-> [simId |-> simId, action |-> "reprovision_triggered"],
        mocked |-> TRUE]

(***************************************************************************)
(* POST /diagnose.  pc is the handler's position: the awaits it is         *)
(* suspended on and the code between them.                                 *)
(***************************************************************************)
VARIABLES pc, body, subscriptionResponse, ruleResult, llmResult, diagnosis,
          actionResult, response, calls, world

\* calls is the sequence of calls the handler has made; world records what
\* the environment did: the provider's answers, the model's reply and the
\* clock readings of the evaluation
vars == <<pc, body, subscriptionResponse, ruleResult, llmResult, diagnosis,
          actionResult, response, calls, world>>

\* a local that has not been assigned
unset == [unset |-> TRUE]

Init ==
  /\ pc = "idle"
  /\ body = unset
  /\ subscriptionResponse = unset
  /\ ruleResult = unset
  /\ llmResult = unset
  /\ diagnosis = unset
  /\ actionResult = null
  /\ response = unset
  /\ calls = <<>>
  /\ world = EmptyObject

\* name :> o.f when o.f is defined
Copy(name, o, f) == IF Has(o, f) THEN name :> o[f] ELSE EmptyObject

Truthy(o, f) == Has(o, f) /\ o[f] # ""

\* the validation without its return when only the id is missing: the 400 is
\* sent and the handler goes on
PostDiagnose_noReturn(b) ==
  /\ pc = "idle"
  /\ body' = b
  /\ IF MissingIssue(b)
     THEN /\ response' = [status |-> 400, error |-> "Missing required fields"]
          /\ pc' = "done"
          /\ calls' = calls
     ELSE /\ calls' = Append(calls, "getSubscription")
          /\ pc' = "getSubscription"
          /\ response' = IF MissingId(b)
                         THEN [status |-> 400, error |-> "Missing required fields"]
                         ELSE response
  /\ UNCHANGED <<subscriptionResponse, ruleResult, llmResult, diagnosis, actionResult, world>>

\* the request arrives: validation, then the subscription fetch is started
PostDiagnose(b) ==
  /\ pc = "idle"
  /\ body' = b
  /\ IF MissingId(b) \/ MissingIssue(b)
     THEN /\ response' = [status |-> 400, error |-> "Missing required fields"]
          /\ pc' = "done"
          /\ calls' = calls
     ELSE /\ calls' = Append(calls, "getSubscription")
          /\ pc' = "getSubscription"
          /\ response' = response
  /\ UNCHANGED <<subscriptionResponse, ruleResult, llmResult, diagnosis, actionResult, world>>

\* gigsClient.getSubscription settles
getSubscription(outcome) ==
  /\ pc = "getSubscription"
  /\ subscriptionResponse' = getSubscriptionResult(outcome)
  /\ pc' = "step2"
  /\ world' = world @@ ("fetch" :> outcome)
  /\ UNCHANGED <<body, ruleResult, llmResult, diagnosis, actionResult, response, calls>>

ruleResponse(subscriptionId, r, a) ==
  [status |-> 200, method |-> "rule_engine", rule |-> r.ruleName,
   confidence |-> r.confidence, action |-> r.action, message |-> r.message,
   actionResult |-> a,
   apiCalls |-> <<"GET /subscriptions">>
                \o (IF a # null THEN <<"POST /sims/reprovision">> ELSE <<>>)]

\* a match that also asks for a confidence of 90
matched_confident(r) == r # null /\ r.confidence >= 90

\* if (ruleResult)
matched(r) == r # null

internalError == [status |-> 500, error |-> "Internal server error"]

\* after the fetch: its failure ends the request; otherwise the rule engine
\* runs, and a match is answered (after the reprovision call, if one is made)
\* and a no-match starts the reasoner
RunRuleEngine(clock) ==
  /\ pc = "step2"
  /\ IF ~subscriptionResponse.success
     THEN /\ clock = <<Now0, Now0>>
          /\ response' = [status |-> 500, error |-> "Failed to fetch subscription data",
                          details |-> subscriptionResponse.error]
          /\ pc' = "done"
          /\ UNCHANGED <<ruleResult, calls, world>>
     ELSE \E r \in {evaluate(subscriptionResponse.data, body.userIssue, clock)} :
              IF IsThrown(r)
              THEN /\ response' = internalError
                   /\ pc' = "done"
                   /\ calls' = Append(calls, "evaluate")
                   /\ world' = world @@ ("clock" :> clock)
                   /\ UNCHANGED ruleResult
              ELSE /\ ruleResult' = r
                   /\ world' = world @@ ("clock" :> clock)
                   /\ IF matched(r)
                      THEN IF r.action = "reprovision" /\ Truthy(r, "simId")
                           THEN /\ calls' = calls \o <<"evaluate", "reprovisionSIM">>
                                /\ pc' = "reprovisionSIM_rule"
                                /\ response' = response
                           ELSE /\ calls' = Append(calls, "evaluate")
                                /\ response' = ruleResponse(body.subscriptionId, r, null)
                                /\ pc' = "done"
                      ELSE /\ calls' = calls \o <<"evaluate", "diagnose">>
                           /\ pc' = "diagnose"
                           /\ response' = response
  /\ UNCHANGED <<body, subscriptionResponse, llmResult, diagnosis, actionResult>>

\* llmHandler.diagnose settles
diagnose(reply) ==
  /\ pc = "diagnose"
  /\ llmResult' = llmDiagnose(reply)
  /\ pc' = "step3"
  /\ world' = world @@ ("reply" :> reply)
  /\ UNCHANGED <<body, subscriptionResponse, ruleResult, diagnosis, actionResult, response, calls>>

llmResponse(d, a) ==
  [status |-> 200, method |-> "llm", actionResult |-> a,
   apiCalls |-> <<"GET /subscriptions", "POST /models/gemini-2.5-flash:generateContent">>
                \o (IF a # null THEN <<"POST /sims/reprovision">> ELSE <<>>)]
  @@ Copy("confidence", d, "confidence")
  @@ Copy("action", d, "recommendedAction")
  @@ (IF Truthy(d, "userMessage") THEN "message" :> d.userMessage
      ELSE Copy("message", d, "diagnosis"))
  @@ Copy("reasoning", d, "reasoning")

\* the gate written with > instead of >=
confidentEnough_strict(d) == Has(d, "confidence") /\ d.confidence > ConfidenceGate

\* the gate one point too low
confidentEnough_low(d) == Has(d, "confidence") /\ d.confidence >= ConfidenceGate - 1

\* diagnosis.confidence >= 80; undefined >= 80 is false
confidentEnough(d) == Has(d, "confidence") /\ d.confidence >= ConfidenceGate

\* after the reasoner: its failure is answered with an escalation; otherwise
\* the confidence gate, and the answer (after the reprovision call, if one is
\* made)
ApplyGate ==
  /\ pc = "step3"
  /\ IF ~llmResult.success
     THEN /\ response' = [status |-> 200, method |-> "llm_failed", confidence |-> 0,
                          action |-> "escalate",
                          message |-> "Unable to diagnose automatically. A support agent will review your case.",
                          reasoning |-> llmResult.error,
                          apiCalls |-> <<"GET /subscriptions">>]
          /\ pc' = "done"
          /\ UNCHANGED <<diagnosis, calls>>
     ELSE LET d == llmResult.diagnosis
          IN  IF confidentEnough(d)
              THEN /\ diagnosis' = d
                   /\ IF /\ StrictEq(d, "recommendedAction", "reprovision")
                         /\ Truthy(simOf(subscriptionResponse.data), "id")
                      THEN /\ calls' = Append(calls, "reprovisionSIM")
                           /\ pc' = "reprovisionSIM_llm"
                           /\ response' = response
                      ELSE /\ response' = llmResponse(d, null)
                           /\ pc' = "done"
                           /\ calls' = calls
              ELSE /\ diagnosis' = [f \in DOMAIN d \cup {"recommendedAction"} |->
                                     IF f = "recommendedAction" THEN "escalate" ELSE d[f]]
                   /\ response' = llmResponse(diagnosis', null)
                   /\ pc' = "done"
                   /\ calls' = calls
  /\ UNCHANGED <<body, subscriptionResponse, ruleResult, llmResult, actionResult, world>>

\* gigsClient.reprovisionSIM settles and the handler answers
reprovisionSIM(outcome) ==
  /\ pc \in {"reprovisionSIM_rule", "reprovisionSIM_llm"}
  /\ LET simId == IF pc = "reprovisionSIM_rule" THEN ruleResult.simId
                  ELSE subscriptionResponse.data.sim.id
     IN  actionResult' = reprovisionSIMResult(simId, outcome)
  /\ response' = IF pc = "reprovisionSIM_rule"
                 THEN ruleResponse(body.subscriptionId, ruleResult, actionResult')
                 ELSE llmResponse(diagnosis, actionResult')
  /\ pc' = "done"
  /\ world' = world @@ ("reprovision" :> outcome)
  /\ UNCHANGED <<body, subscriptionResponse, ruleResult, llmResult, diagnosis, calls>>

Next ==
  \/ \E b \in Bodies : PostDiagnose(b)
  \/ \E o \in FetchOutcomes : getSubscription(o)
  \/ \E c \in Clocks : RunRuleEngine(c)
  \/ \E r \in ModelReplies : diagnose(r)
  \/ ApplyGate
  \/ \E o \in ReprovisionOutcomes : reprovisionSIM(o)

Spec == Init /\ [][Next]_vars

\* every external call the handler awaits settles, and the event loop then
\* runs the handler's continuation; no request has to arrive
FairSpec ==
  /\ Spec
  /\ WF_vars(pc = "getSubscription" /\ \E o \in FetchOutcomes : getSubscription(o))
  /\ WF_vars(pc = "step2" /\ \E c \in Clocks : RunRuleEngine(c))
  /\ WF_vars(pc = "diagnose" /\ \E r \in ModelReplies : diagnose(r))
  /\ WF_vars(pc = "step3" /\ ApplyGate)
  /\ WF_vars(pc \in {"reprovisionSIM_rule", "reprovisionSIM_llm"}
               /\ \E o \in ReprovisionOutcomes : reprovisionSIM(o))

(***************************************************************************)
(* Properties.                                                             *)
(***************************************************************************)
InCalls(c) == \E i \in 1..Len(calls) : calls[i] = c

Evaluated == ruleResult # unset

Fetched == Has(subscriptionResponse, "success") /\ subscriptionResponse.success

Data == subscriptionResponse.data

InactivePending ==
  StrictEq(simOf(Data), "status", "inactive") /\ StrictEq(Data, "status", "pending")

\* the user's text contains "activation failed", in any case
SaysActivationFailed ==
  /\ body.userIssue.type = "string"
  /\ \E i \in 0..(Len(body.userIssue.chars) - 17) :
       toLowerCase(SubSeq(body.userIssue.chars, i + 1, i + 17))
         = <<"a", "c", "t", "i", "v", "a", "t", "i", "o", "n", " ", "f", "a", "i", "l", "e", "d">>

\* the result of the rule listed at position i, on its own
ListedRule(i) ==
  CASE i = 1 -> ruleProvisioningStuck(Data, body.userIssue, world.clock)
    [] i = 2 -> ruleBillingHold(Data, body.userIssue, world.clock)
    [] i = 3 -> ruleNormalDelay(Data, body.userIssue, world.clock)
    [] i = 4 -> ruleDeviceConfig(Data, body.userIssue, world.clock)
    [] i = 5 -> rulePaymentOverdue(Data, body.userIssue, world.clock)
    [] i = 6 -> ruleSubscriptionEnded(Data, body.userIssue, world.clock)
    [] i = 7 -> ruleActivationFailed(Data, body.userIssue, world.clock)

\* C1: evaluate returns the result of the first rule, in the listed order
\* 1..7, whose condition holds, and null only when no rule's condition holds;
\* an inactive/pending record older than 15 minutes whose text contains
\* "activation failed" yields provisioning_stuck.
C1_FirstMatchWins ==
  Evaluated =>
    LET holding == {i \in 1..7 : ListedRule(i) # null}
    IN  /\ (holding = {}) <=> (ruleResult = null)
        /\ \A i \in holding :
             (\A j \in holding : i <= j) => ruleResult = ListedRule(i)
        /\ (/\ InactivePending
            /\ _minutesSinceActivation(Data, world.clock[1]) > ProvisioningThreshold
            /\ SaysActivationFailed)
           => ruleResult.ruleName = "provisioning_stuck"

C1_Witness ==
  /\ Evaluated
  /\ ruleResult # null
  /\ ruleResult.ruleName = "provisioning_stuck"
  /\ SaysActivationFailed

\* C2: for an inactive SIM and a pending subscription, evaluate returns
\* normal_delay (wait, 90) whenever elapsed minutes <= 15, exactly 15
\* included, and provisioning_stuck (reprovision, 95) whenever elapsed
\* minutes > 15.  Stated for evaluations whose clock readings agree.
C2_BoundaryIsNormalDelay ==
  (Evaluated /\ InactivePending /\ world.clock[1] = world.clock[2]) =>
    LET elapsed == _minutesSinceActivation(Data, world.clock[1])
    IN  /\ ruleResult # null
        /\ IF elapsed <= ProvisioningThreshold
           THEN /\ ruleResult.ruleName = "normal_delay"
                /\ ruleResult.action = "wait"
                /\ ruleResult.confidence = 90
           ELSE /\ ruleResult.ruleName = "provisioning_stuck"
                /\ ruleResult.action = "reprovision"
                /\ ruleResult.confidence = 95

Answered == pc = "done" /\ Has(response, "method")

\* what the reasoner proposed, before the gate
Proposed == llmResult.diagnosis

\* C3: on the reasoner path a diagnosis with confidence below 80 is returned
\* with action escalate whatever the reasoner proposed, and one with
\* confidence 80 or more with exactly the action the reasoner proposed.
C3_ConfidenceGate ==
  (Answered /\ response.method = "llm" /\ Has(Proposed, "confidence")) =>
    /\ response.confidence = Proposed.confidence
    /\ IF Proposed.confidence < 80
       THEN StrictEq(response, "action", "escalate")
       ELSE /\ Has(response, "action") <=> Has(Proposed, "recommendedAction")
            /\ Has(response, "action") => response.action = Proposed.recommendedAction

C3_Witness ==
  /\ Answered
  /\ response.method = "llm"
  /\ StrictEq(Proposed, "confidence", 79)
  /\ StrictEq(Proposed, "recommendedAction", "reprovision")
  /\ response.action = "escalate"

\* C4: on both paths the reprovision call is made only if the diagnosis
\* returned for the request has confidence >= 80.
C4_ReprovisionOnlyWhenConfident ==
  InCalls("reprovisionSIM") =>
    /\ IF ruleResult # null
       THEN ruleResult.confidence >= 80
       ELSE Has(diagnosis, "confidence") /\ diagnosis.confidence >= 80
    /\ pc = "done" => (Has(response, "confidence") /\ response.confidence >= 80)

C4_Witness ==
  /\ Answered
  /\ response.method = "llm"
  /\ InCalls("reprovisionSIM")
  /\ response.actionResult # null

\* C5: whenever evaluate returns a diagnosis whose action is reprovision, the
\* handler makes the reprovision call before responding and the response
\* carries a non-null action outcome.
C5_RuleReprovisionIsExecuted ==
  (pc = "done" /\ Evaluated /\ ruleResult # null /\ ruleResult.action = "reprovision") =>
    /\ InCalls("reprovisionSIM")
    /\ response.actionResult # null

EnumeratedActions ==
  {"reprovision", "route_to_payment", "route_to_payment_restoration",
   "route_to_settings_guide", "wait", "inform_only", "escalate"}

\* C6: every response sent for a diagnosis carries a confidence, a message
\* and an action that is one of the enumerated values, whichever path
\* produced it.
C6_ResponseIsConcrete ==
  Answered =>
    /\ Has(response, "confidence")
    /\ Has(response, "message")
    /\ Has(response, "action")
    /\ response.action \in EnumeratedActions

\* the model's reply is a transport error, holds no braces to match, or the
\* matched text is not a JSON object
ReplyFailed(reply) ==
  \/ ~reply.ok
  \/ ~\E i, j \in 1..Len(reply.text) :
        i < j /\ reply.text[i].t = "{" /\ reply.text[j].t = "}"
  \/ \E i, j \in 1..Len(reply.text) :
        /\ i < j /\ reply.text[i].t = "{" /\ reply.text[j].t = "}"
        /\ \A k \in 1..Len(reply.text) :
             /\ reply.text[k].t = "{" => i <= k
             /\ reply.text[k].t = "}" => k <= j
        /\ ~(j = i + 1 \/ (j = i + 2 /\ reply.text[i + 1].t = "members"))

\* C7: a failure inside the reasoner never reaches the handler as an
\* exception: diagnose returns a diagnosis with action escalate, confidence 0
\* and a reasoning describing the failure, and the request is answered with
\* action escalate and confidence 0 without any reprovision call.
C7_ReasonerFailureIsEscalation ==
  Has(world, "reply") =>
    /\ Has(llmResult, "success")
    /\ ReplyFailed(world.reply) <=> ~llmResult.success
    /\ ~llmResult.success =>
         /\ llmResult.diagnosis.recommendedAction = "escalate"
         /\ llmResult.diagnosis.confidence = 0
         /\ llmResult.diagnosis.reasoning = <<"LLM error: ", llmResult.error>>
         /\ ~InCalls("reprovisionSIM")
         /\ pc = "done" =>
              /\ response.status = 200
              /\ response.action = "escalate"
              /\ response.confidence = 0
              /\ response.reasoning = llmResult.error

C7_Witness ==
  /\ pc = "done"
  /\ Has(world, "reply")
  /\ world.reply.ok
  /\ ~llmResult.success
  /\ response.action = "escalate"

\* C8: when the reprovision call fails the executor returns an outcome with
\* success = true marked as a placeholder, a genuine provider response is
\* never marked as a placeholder, and the request is still answered normally
\* with its diagnosis unchanged.
C8_ReprovisionFailureIsMasked ==
  Has(world, "reprovision") =>
    /\ actionResult.success
    /\ Has(actionResult, "mocked") <=> ~world.reprovision.ok
    /\ Has(actionResult, "mocked") => actionResult.mocked
    /\ pc = "done"
    /\ response.status = 200
    /\ response.actionResult = actionResult
    /\ response.action = "reprovision"
    /\ IF ruleResult # null
       THEN /\ response.method = "rule_engine"
            /\ response.rule = ruleResult.ruleName
            /\ response.confidence = ruleResult.confidence
            /\ response.action = ruleResult.action
            /\ response.message = ruleResult.message
       ELSE /\ response.method = "llm"
            /\ response.confidence = Proposed.confidence
            /\ response.action = Proposed.recommendedAction

C8_Witness ==
  /\ pc = "done"
  /\ Has(world, "reprovision")
  /\ ~world.reprovision.ok
  /\ actionResult.mocked
  /\ response.status = 200

\* a required field of the body is undefined or the empty string
FieldMissing ==
  \/ ~Has(body, "subscriptionId")
  \/ body.subscriptionId = ""
  \/ ~Has(body, "userIssue")
  \/ (body.userIssue.type = "string" /\ Len(body.userIssue.chars) = 0)

\* C9: rule evaluation, the reasoner and the executor are invoked only after
\* the subscription fetch has succeeded: a request with a missing
\* subscriptionId or userIssue is rejected before any fetch or evaluation,
\* and a failed fetch ends the request with an error response carrying the
\* upstream error detail and no evaluation, reasoner call or reprovision call.
C9_NothingBeforeFetch ==
  /\ (body # unset /\ FieldMissing) =>
       /\ calls = <<>>
       /\ pc = "done"
       /\ response.status = 400
  /\ (InCalls("evaluate") \/ InCalls("diagnose") \/ InCalls("reprovisionSIM")) =>
       (Has(world, "fetch") /\ world.fetch.ok /\ calls[1] = "getSubscription")
  /\ (Has(world, "fetch") /\ ~world.fetch.ok) =>
       /\ calls = <<"getSubscription">>
       /\ ruleResult = unset /\ llmResult = unset /\ actionResult = null
       /\ pc = "done" =>
            /\ response.status = 500
            /\ response.details = world.fetch.error

C9_Witness ==
  /\ pc = "done"
  /\ Has(world, "fetch")
  /\ ~world.fetch.ok
  /\ response.status = 500

\* C10: the reasoner is invoked if and only if the fetch succeeded and the
\* rule engine returned null: a rule match is answered with method
\* rule_engine and no reasoner call, a no-match with method llm, or
\* llm_failed when the reasoner failed, never with rule_engine.
C10_ReasonerIffNoMatch ==
  /\ InCalls("diagnose") <=> (Fetched /\ ruleResult = null)
  /\ (pc = "done" /\ Evaluated /\ ruleResult # null) =>
       (response.method = "rule_engine" /\ llmResult = unset)
  /\ (pc = "done" /\ ruleResult = null) =>
       /\ response.method \in {"llm", "llm_failed"}
       /\ response.method = "llm_failed" <=> ~llmResult.success

C10_Witness ==
  /\ pc = "done"
  /\ ruleResult = null
  /\ InCalls("diagnose")
  /\ response.method = "llm"

\* the rule engine has run on a text (no TypeError)
RulesRanOnText == Has(world, "clock") /\ body.userIssue.type = "string"

ActivationStart ==
  IF Has(Data, "createdAt") THEN Data.createdAt ELSE simOf(Data).createdAt

HasActivationStart == Has(Data, "createdAt") \/ Has(simOf(Data), "createdAt")

\* C12: the elapsed minutes computed by _minutesSinceActivation are never
\* negative, for every record and current time: they are the whole minutes
\* between the current time and the subscription's createdAt, else the SIM's
\* createdAt, else 0, and the minutes remaining reported by normal_delay
\* never exceed 15.
C12_ElapsedNeverNegative ==
  Evaluated =>
    /\ \A k \in 1..2 :
         LET elapsed == _minutesSinceActivation(Data, world.clock[k])
         IN  /\ elapsed >= 0
             /\ IF HasActivationStart
                THEN /\ elapsed * MsPerMinute <= world.clock[k] - ActivationStart
                     /\ world.clock[k] - ActivationStart < (elapsed + 1) * MsPerMinute
                ELSE elapsed = 0
    /\ (Evaluated /\ ruleResult # null /\ ruleResult.ruleName = "normal_delay") =>
         ruleResult.minutesRemaining <= 15

\* the orders in which rules 1 to 6 can be listed
Orders == Permutations(1..6)

\* the rule engine has just run on a text, with one elapsed time for all
\* rules (its clock readings agree)
JustEvaluatedText ==
  /\ RulesRanOnText
  /\ world.clock[1] = world.clock[2]
  /\ ~Has(world, "reply")
  /\ ~Has(world, "reprovision")

\* C13: for every record, user text and elapsed time at most one of the rules
\* 1 to 6 has a true condition, so without rule 7 every permutation of rules
\* 1 to 6 returns what the listed order returns; the listed order changes
\* the evaluator's result only through rule 7.
C13_OrderMattersOnlyForRule7 ==
  JustEvaluatedText =>
    \A results \in {[i \in 1..6 |-> ListedRule(i)]},
       listed \in {evaluateFrom(SubSeq(rules, 1, 6), 1, Data, body.userIssue, world.clock)} :
      LET first(p) ==
            LET at == {k \in 1..6 : results[p[k]] # null}
            IN  IF at = {} THEN null
                ELSE results[p[CHOOSE k \in at : \A l \in at : k <= l]]
      IN  /\ Cardinality({i \in 1..6 : results[i] # null}) <= 1
          /\ \A p \in Orders : first(p) = listed
          /\ ruleResult # listed =>
               (listed = null /\ ruleResult.ruleName = "activation_failed")

C13_Witness ==
  /\ JustEvaluatedText
  /\ ruleResult # null
  /\ ruleResult.ruleName = "activation_failed"
  /\ StrictEq(Data, "status", "active")
  /\ ruleDeviceConfig(Data, body.userIssue, world.clock) = null

\* the calls to the provider and to the reasoner, in the order made
ExternalCalls == SelectSeq(calls, LAMBDA c : c # "evaluate")

\* C14: every request, provided each external call it awaits eventually
\* returns or fails, eventually sends exactly one response, and before that
\* response it makes at most one subscription fetch, at most one reasoner
\* call and at most one reprovision call, in that order.
C14_OneResponseAfterOrderedCalls ==
  /\ [](ExternalCalls \in
         {<<>>, <<"getSubscription">>,
          <<"getSubscription", "diagnose">>,
          <<"getSubscription", "reprovisionSIM">>,
          <<"getSubscription", "diagnose", "reprovisionSIM">>})
  /\ [][response # unset => (response' = response /\ calls' = calls)]_vars
  /\ (body # unset) ~> (response # unset)

C14_Witness ==
  /\ response # unset
  /\ response.status = 200
  /\ ExternalCalls = <<"getSubscription", "diagnose", "reprovisionSIM">>

====
